---- MODULE Spec2Model ----
(***************************************************************************)
(* Retail forecasting service: the series aggregator and the feature       *)
(* deriver of src/src/data_processing.py and the request handlers of       *)
(* src/api_service.py.                                                     *)
(*                                                                         *)
(* Three specifications share the module:                                  *)
(*   SpecAgg   aggregate_sales applied to bounded tables and selections    *)
(*   SpecFeat  create_features_for_ml applied to bounded monthly series    *)
(*   Spec      the API process: dataset loaded at start, then concurrent   *)
(*             requests to /config/filters, /sales/forecast and            *)
(*             /sales/evaluation                                           *)
(***************************************************************************)
EXTENDS Integers, Sequences, FiniteSets, TLC

VARIABLES
    agg,        \* one call of aggregate_sales: arguments, position, return value
    feat,       \* one call of create_features_for_ml: argument, position, return value
    DF_RAW,     \* api_service.DF_RAW: None or the loaded table
    STATUS,     \* api_service.STATUS: "Success" or the load failure reason
    CATEGORIES, \* api_service.CATEGORIES (defined only when the load succeeded)
    REGIONS,    \* api_service.REGIONS (defined only when the load succeeded)
    req         \* the requests in flight, one per worker thread

vars == <<agg, feat, DF_RAW, STATUS, CATEGORIES, REGIONS, req>>

(***************************************************************************)
(* Bounds of the model.                                                    *)
(***************************************************************************)
MaxRows == 2
MaxLen == 14

(***************************************************************************)
(* Python values.  None / NaN is the empty tuple, a present value x is     *)
(* the one-element tuple <<x>>.                                            *)
(***************************************************************************)
None == <<>>
Some(x) == <<x>>
IsNone(o) == o = <<>>
Val(o) == o[1]
NaN == <<>>
IsNaN(c) == c = <<>>

Range(s) == {s[i] : i \in DOMAIN s}

(***************************************************************************)
(* Calendar.  A date is [y, m, d]; months are counted by MonthOrd.         *)
(***************************************************************************)
IsLeap(y) == (y % 4 = 0 /\ y % 100 # 0) \/ y % 400 = 0

DaysInMonth(y, m) ==
    IF m = 2 THEN (IF IsLeap(y) THEN 29 ELSE 28)
    ELSE IF m \in {4, 6, 9, 11} THEN 30 ELSE 31

Date(y, m, d) == [y |-> y, m |-> m, d |-> d]
DateKey(dt) == dt.y * 10000 + dt.m * 100 + dt.d
MonthOrd(dt) == dt.y * 12 + (dt.m - 1)
MonthEnd(k) == Date(k \div 12, (k % 12) + 1, DaysInMonth(k \div 12, (k % 12) + 1))

(***************************************************************************)
(* The tidy table handed over by load_data: rows with Order_Date, Sales,   *)
(* Category and Region.                                                    *)
(***************************************************************************)
AllCategories == "All Categories"
AllRegions == "All Regions"
CategoryValues == {"Furniture", "Technology"}
RegionValues == {"East", "West"}
CategoryOrder == <<"Furniture", "Technology">>
RegionOrder == <<"East", "West">>
DateValues == {Date(2023, 12, 5), Date(2024, 2, 10), Date(2024, 2, 29)}
SalesValues == {10, 25}

Rows == [Order_Date : DateValues, Sales : SalesValues,
         Category : CategoryValues, Region : RegionValues]

TablesUpTo(n) == UNION {[1..k -> Rows] : k \in 0..n}

RECURSIVE SumSales(_)
SumSales(rows) ==
    IF rows = <<>> THEN 0 ELSE rows[1].Sales + SumSales(Tail(rows))

RowsInMonth(rows, k) == SelectSeq(rows, LAMBDA r : MonthOrd(r.Order_Date) = k)

MinOf(S) == CHOOSE x \in S : \A z \in S : x <= z
MaxOf(S) == CHOOSE x \in S : \A z \in S : x >= z

(***************************************************************************)
(* aggregate_sales (data_processing.py 23-42).                             *)
(***************************************************************************)
\* df.copy(): a new frame with the same rows
copy(rows) == [i \in DOMAIN rows |-> rows[i]]

\* df_filtered[df_filtered['Category'] == category]
FilterCategory(rows, category) ==
    IF category # AllCategories
    THEN SelectSeq(rows, LAMBDA r : r.Category = category)
    ELSE rows

\* df_filtered[df_filtered['Region'] == region]
FilterRegion(rows, region) ==
    IF region # AllRegions
    THEN SelectSeq(rows, LAMBDA r : r.Region = region)
    ELSE rows

\* a resample that drops the months without a transaction
ResampleSkipEmpty(rows) ==
    LET lo == MinOf({MonthOrd(rows[i].Order_Date) : i \in DOMAIN rows})
        hi == MaxOf({MonthOrd(rows[i].Order_Date) : i \in DOMAIN rows})
        full == [j \in 1..(hi - lo + 1) |->
                    [date |-> MonthEnd(lo + j - 1),
                     sales |-> SumSales(RowsInMonth(rows, lo + j - 1))]]
    IN  SelectSeq(full, LAMBDA e : RowsInMonth(rows, MonthOrd(e.date)) # <<>>)

\* set_index('Order_Date')['Sales'].resample('ME').sum(): one bin per calendar
\* month from the month of the earliest row to the month of the latest row,
\* labelled by the month's last day, holding the sum of the month's Sales
\* (0 for a month without rows)
resample_ME_sum(rows) ==
    LET lo == MinOf({MonthOrd(rows[i].Order_Date) : i \in DOMAIN rows})
        hi == MaxOf({MonthOrd(rows[i].Order_Date) : i \in DOMAIN rows})
    IN  [j \in 1..(hi - lo + 1) |->
            [date |-> MonthEnd(lo + j - 1),
             sales |-> SumSales(RowsInMonth(rows, lo + j - 1))]]

\* ts_monthly.index.min()
IndexMin(ts) == CHOOSE dt \in {ts[i].date : i \in DOMAIN ts} :
                    \A i \in DOMAIN ts : DateKey(dt) <= DateKey(ts[i].date)

\* ts_monthly[start:]: the entries labelled start or later
SliceFrom(ts, start) == SelectSeq(ts, LAMBDA e : DateKey(e.date) >= DateKey(start))

\* the value aggregate_sales returns: <<series, data available>>
aggregate_sales(df, category, region) ==
    IF IsNone(df) THEN <<(<<>>), FALSE>>
    ELSE LET df_filtered == FilterRegion(FilterCategory(copy(Val(df)), category), region)
         IN  IF df_filtered = <<>> THEN <<(<<>>), FALSE>>
             ELSE LET ts_monthly == resample_ME_sum(df_filtered)
                  IN  <<SliceFrom(ts_monthly, IndexMin(ts_monthly)), TRUE>>

(***************************************************************************)
(* SpecAgg: aggregate_sales as a function of its arguments.                *)
(***************************************************************************)
CategoryArgs == {AllCategories} \cup CategoryValues
RegionArgs == {AllRegions} \cup RegionValues

AggIdle == [pc |-> "off", df |-> None, category |-> AllCategories,
            region |-> AllRegions, ts |-> <<>>, has |-> FALSE]
FeatIdle == [pc |-> "off", ts_data |-> <<>>, X |-> <<>>, y |-> <<>>]

ApiOff ==
    /\ DF_RAW = None
    /\ STATUS = <<"off">>
    /\ CATEGORIES = <<>>
    /\ REGIONS = <<>>
    /\ req = <<>>

InitAgg ==
    /\ agg \in [pc : {"call"},
                df : {None} \cup {Some(t) : t \in TablesUpTo(MaxRows)},
                category : CategoryArgs, region : RegionArgs,
                ts : {<<>>}, has : {FALSE}]
    /\ feat = FeatIdle
    /\ ApiOff

AggregateCall ==
    /\ agg.pc = "call"
    /\ LET ret == aggregate_sales(agg.df, agg.category, agg.region)
       IN  agg' = [agg EXCEPT !.pc = "returned", !.ts = ret[1], !.has = ret[2]]
    /\ UNCHANGED <<feat, DF_RAW, STATUS, CATEGORIES, REGIONS, req>>

NextAgg == AggregateCall

SpecAgg == InitAgg /\ [][NextAgg]_vars

(***************************************************************************)
(* create_features_for_ml (data_processing.py 44-67).  The frame df is a   *)
(* record of columns over the index of ts_data; a cell is <<v>> or NaN.    *)
(***************************************************************************)
LagPeriods == 12

\* Series.shift(n) moving the values one position too few
ShiftOffByOne(col, n) ==
    [i \in DOMAIN col |-> IF i <= n - 1 THEN NaN ELSE col[i - (n - 1)]]

\* Series.shift(n): the value of n positions earlier, NaN for the first n
shift(col, n) ==
    [i \in DOMAIN col |-> IF i <= n THEN NaN ELSE col[i - n]]

\* a forward fill: a NaN cell takes the last value before it
ffillColumn(col) ==
    [i \in DOMAIN col |->
        IF ~IsNaN(col[i]) THEN col[i]
        ELSE IF \E j \in DOMAIN col : j < i /\ ~IsNaN(col[j])
             THEN col[MaxOf({j \in DOMAIN col : j < i /\ ~IsNaN(col[j])})]
             ELSE NaN]

\* bfill on one column: a NaN cell takes the next value after it, and stays
\* NaN when no value follows
bfillColumn(col) ==
    [i \in DOMAIN col |->
        IF ~IsNaN(col[i]) THEN col[i]
        ELSE IF \E j \in DOMAIN col : j > i /\ ~IsNaN(col[j])
             THEN col[MinOf({j \in DOMAIN col : j > i /\ ~IsNaN(col[j])})]
             ELSE NaN]

\* DataFrame.bfill(): every column back-filled
bfill(df) == [c \in DOMAIN df |-> bfillColumn(df[c])]

\* index.quarter computed as month \div 3 + 1
QuarterOffByOne(m) == (m \div 3) + 1

\* index.quarter
quarter(m) == ((m - 1) \div 3) + 1

\* the value create_features_for_ml returns: <<X, y>>, X a sequence of feature
\* rows and y the Sales column, both over the index of ts_data
create_features_for_ml(ts_data) ==
    LET Sales == [i \in DOMAIN ts_data |-> Some(ts_data[i].sales)]
        df0 == [Sales |-> Sales,
                month |-> [i \in DOMAIN ts_data |-> Some(ts_data[i].date.m)],
                year |-> [i \in DOMAIN ts_data |-> Some(ts_data[i].date.y)],
                quarter |-> [i \in DOMAIN ts_data |-> Some(quarter(ts_data[i].date.m))],
                lag_12 |-> shift(Sales, LagPeriods)]
        df == bfill(df0)
        X == [i \in DOMAIN ts_data |->
                [index |-> ts_data[i].date,
                 month |-> df.month[i], year |-> df.year[i],
                 quarter |-> df.quarter[i], lag_12 |-> df.lag_12[i]]]
        y == [i \in DOMAIN ts_data |-> [index |-> ts_data[i].date, Sales |-> df.Sales[i]]]
    IN  <<X, y>>

(***************************************************************************)
(* SpecFeat: create_features_for_ml applied to monthly series, built month *)
(* by month as aggregate_sales builds them (consecutive month-ends).       *)
(***************************************************************************)
StartDates == {Date(2023, 11, 30)}

InitFeat ==
    /\ feat = [pc |-> "build", ts_data |-> <<>>, X |-> <<>>, y |-> <<>>]
    /\ agg = AggIdle
    /\ ApiOff

FirstMonth(dt, v) ==
    /\ feat.pc = "build"
    /\ feat.ts_data = <<>>
    /\ feat' = [feat EXCEPT !.ts_data = <<[date |-> dt, sales |-> v]>>]
    /\ UNCHANGED <<agg, DF_RAW, STATUS, CATEGORIES, REGIONS, req>>

NextMonth(v) ==
    /\ feat.pc = "build"
    /\ feat.ts_data # <<>>
    /\ Len(feat.ts_data) < MaxLen
    /\ LET last == feat.ts_data[Len(feat.ts_data)].date
       IN  feat' = [feat EXCEPT !.ts_data =
                        Append(@, [date |-> MonthEnd(MonthOrd(last) + 1), sales |-> v])]
    /\ UNCHANGED <<agg, DF_RAW, STATUS, CATEGORIES, REGIONS, req>>

CreateFeaturesCall ==
    /\ feat.pc = "build"
    /\ LET ret == create_features_for_ml(feat.ts_data)
       IN  feat' = [feat EXCEPT !.pc = "returned", !.X = ret[1], !.y = ret[2]]
    /\ UNCHANGED <<agg, DF_RAW, STATUS, CATEGORIES, REGIONS, req>>

NextFeat ==
    \/ \E dt \in StartDates, v \in SalesValues : FirstMonth(dt, v)
    \/ \E v \in SalesValues : NextMonth(v)
    \/ CreateFeaturesCall

SpecFeat == InitFeat /\ [][NextFeat]_vars

(***************************************************************************)
(* load_data (data_processing.py 10-21).  The file on disk is the input:   *)
(* absent, unreadable, or a sheet of rows.                                 *)
(***************************************************************************)
FILE_NAME == "data/US Superstore data.xls"

load_data(file) ==
    CASE file.kind = "missing" ->
            <<None, <<"Error: Archivo no encontrado en: ", FILE_NAME>> >>
      [] file.kind = "unreadable" ->
            <<None, <<"Error al cargar datos: ", file.error>> >>
      [] file.kind = "sheet" ->
            <<Some(file.rows), <<"Success">> >>

\* the sheets the service is started on: every sub-table of two transactions
\* of different category, region and month
SheetRows == <<[Order_Date |-> Date(2023, 12, 5), Sales |-> 10,
                Category |-> "Furniture", Region |-> "East"],
               [Order_Date |-> Date(2024, 2, 10), Sales |-> 25,
                Category |-> "Technology", Region |-> "West"]>>

Files ==
    {[kind |-> "missing", error |-> "", rows |-> <<>>],
     [kind |-> "unreadable", error |-> "bad sheet", rows |-> <<>>]}
    \cup {[kind |-> "sheet", error |-> "",
           rows |-> SelectSeq(SheetRows, LAMBDA r : r.Category \in keep)] :
          keep \in SUBSET CategoryValues}

(***************************************************************************)
(* api_service.py: module state and the three endpoints.                   *)
(***************************************************************************)
Workers == {"w1", "w2"}
ModelTypes == {"sarima", "xgboost", "bogus"}
CategoryParams == {AllCategories, "Furniture"}
RegionParams == {AllRegions, "West"}
StepsValues == {1, 12}
TestMonths == 12

NoMetrics == [status |-> "", message |-> "", metrics |-> <<>>]
NoResponse == [code |-> 0, kind |-> "none", detail |-> <<>>, body |-> <<>>]

IdleReq == [pc |-> "idle", endpoint |-> "", model_type |-> "", category |-> "",
            region |-> "", steps |-> 0, ts_history |-> <<>>,
            data_available |-> FALSE, forecast_df |-> None, status |-> "",
            metrics |-> NoMetrics, trace |-> <<>>, response |-> NoResponse]

\* raise HTTPException(status_code=code, detail=detail)
HTTPException(code, detail) ==
    [code |-> code, kind |-> "HTTPException", detail |-> detail, body |-> <<>>]

\* a returned dict, sent as JSON with status 200
Json(kind, body) == [code |-> 200, kind |-> kind, detail |-> <<>>, body |-> <<body>>]

\* ['All Categories'] + sorted(DF_RAW['Category'].unique().tolist())
SortedUnique(rows, order, column) ==
    SelectSeq(order, LAMBDA v : \E i \in DOMAIN rows : rows[i][column] = v)

\* i.strftime("%Y-%m-%d"): year, month and day in this order
strftime(dt) == <<dt.y, dt.m, dt.d>>

(***************************************************************************)
(* The strategies of src/sarima_model.py and src/xgboost_model.py, which   *)
(* are outside the sources at hand: each call returns one of the shapes    *)
(* its caller distinguishes.                                               *)
(***************************************************************************)
FailureTexts == {"insufficient data"}

ForecastFrame(model, ts_history, steps) ==
    [k \in 1..steps |->
        [index |-> MonthEnd(MonthOrd(ts_history[Len(ts_history)].date) + k),
         forecast |-> model]]

ForecastOutcomes(model, ts_history, steps) ==
    {<<Some(ForecastFrame(model, ts_history, steps)), "Success">>,
     <<None, "Success">>}
    \cup {<<None, t>> : t \in FailureTexts}
    \cup {<<Some(ForecastFrame(model, ts_history, steps)), t>> : t \in FailureTexts}

get_sarima_forecast(ts_history, steps) == ForecastOutcomes("sarima", ts_history, steps)
get_xgboost_forecast(ts_history, steps) == ForecastOutcomes("xgboost", ts_history, steps)

BacktestOutcomes(model, ts_history, test_months) ==
    {[status |-> "Success", message |-> "", metrics |-> <<model, test_months>>],
     [status |-> "Error", message |-> "insufficient data", metrics |-> <<>>],
     [status |-> "insufficient data", message |-> "insufficient data", metrics |-> <<>>]}

run_backtest_sarima(ts_history, test_months) ==
    BacktestOutcomes("sarima", ts_history, test_months)
run_backtest_xgboost(ts_history, test_months) ==
    BacktestOutcomes("xgboost", ts_history, test_months)

(***************************************************************************)
(* Process start (api_service.py 27-34).                                   *)
(***************************************************************************)
Init ==
    /\ \E file \in Files :
         LET loaded == load_data(file) IN
         /\ DF_RAW = loaded[1]
         /\ STATUS = loaded[2]
         /\ CATEGORIES = IF IsNone(loaded[1]) THEN <<>>
                         ELSE <<AllCategories>> \o
                              SortedUnique(Val(loaded[1]), CategoryOrder, "Category")
         /\ REGIONS = IF IsNone(loaded[1]) THEN <<>>
                      ELSE <<AllRegions>> \o
                           SortedUnique(Val(loaded[1]), RegionOrder, "Region")
    /\ req = [w \in Workers |-> IdleReq]
    /\ agg = AggIdle
    /\ feat = FeatIdle

Arrived(w, endpoint, model_type, category, region, steps) ==
    [IdleReq EXCEPT !.endpoint = endpoint, !.model_type = model_type,
                    !.category = category, !.region = region, !.steps = steps]

\* GET /config/filters (api_service.py 43-48)
get_filters(w) ==
    /\ req[w].pc = "idle"
    /\ LET q == Arrived(w, "filters", "", "", "", 0) IN
       req' = [req EXCEPT ![w] =
                 IF IsNone(DF_RAW)
                 THEN [q EXCEPT !.pc = "done",
                         !.response = HTTPException(500,
                             <<"Datos no cargados. Razon: ">> \o STATUS)]
                 ELSE [q EXCEPT !.pc = "done",
                         !.response = Json("filters",
                             [categories |-> CATEGORIES, regions |-> REGIONS])]]
    /\ UNCHANGED <<agg, feat, DF_RAW, STATUS, CATEGORIES, REGIONS>>

\* the first part without the load check: a missing table goes to aggregate_sales
BeginRequestNoLoadCheck(q) ==
    LET ret == aggregate_sales(DF_RAW, q.category, q.region)
        q1 == [q EXCEPT !.ts_history = ret[1], !.data_available = ret[2],
                        !.trace = Append(@, "aggregate_sales")]
    IN  IF ~ret[2]
        THEN [q1 EXCEPT !.pc = "done",
                !.response = Json("nodata",
                   [status |-> "error",
                    message |-> <<"No data found for ", q.category, "/",
                                  q.region, ".">>])]
        ELSE [q1 EXCEPT !.pc = "route"]

\* the first part raising 404 for an empty selection
BeginRequestRaisingOnEmpty(q) ==
    IF IsNone(DF_RAW)
    THEN [q EXCEPT !.pc = "done",
            !.response = HTTPException(500,
                <<"Error de carga de datos inicial: ">> \o STATUS)]
    ELSE LET ret == aggregate_sales(DF_RAW, q.category, q.region)
             q1 == [q EXCEPT !.ts_history = ret[1], !.data_available = ret[2],
                             !.trace = Append(@, "aggregate_sales")]
         IN  IF ~ret[2]
             THEN [q1 EXCEPT !.pc = "done",
                     !.response = HTTPException(404,
                        <<"No data found for ", q.category, "/", q.region, ".">>)]
             ELSE [q1 EXCEPT !.pc = "route"]

\* the part both data endpoints start with (api_service.py 61-66 and 112-117):
\* the load check, the aggregation and the no-data return.  The result is the
\* request after the step.
BeginRequest(q) ==
    IF IsNone(DF_RAW)
    THEN [q EXCEPT !.pc = "done",
            !.response = HTTPException(500,
                <<"Error de carga de datos inicial: ">> \o STATUS)]
    ELSE LET ret == aggregate_sales(DF_RAW, q.category, q.region)
             q1 == [q EXCEPT !.ts_history = ret[1], !.data_available = ret[2],
                             !.trace = Append(@, "aggregate_sales")]
         IN  IF ~ret[2]
             THEN [q1 EXCEPT !.pc = "done",
                     !.response = Json("nodata",
                        [status |-> "error",
                         message |-> <<"No data found for ", q.category, "/",
                                       q.region, ".">>])]
             ELSE [q1 EXCEPT !.pc = "route"]

\* /sales/forecast filtering the shared table in place instead of a copy
sales_forecast_in_place(w, model_type, category, region, steps) ==
    /\ req[w].pc = "idle"
    /\ req' = [req EXCEPT ![w] =
                 BeginRequest(Arrived(w, "forecast", model_type, category, region, steps))]
    /\ DF_RAW' = IF IsNone(DF_RAW) THEN DF_RAW
                 ELSE Some(FilterRegion(FilterCategory(Val(DF_RAW), category), region))
    /\ UNCHANGED <<agg, feat, STATUS, CATEGORIES, REGIONS>>

\* GET /sales/forecast, up to the model router (api_service.py 51-68)
sales_forecast_endpoint(w, model_type, category, region, steps) ==
    /\ req[w].pc = "idle"
    /\ req' = [req EXCEPT ![w] =
                 BeginRequest(Arrived(w, "forecast", model_type, category, region, steps))]
    /\ UNCHANGED <<agg, feat, DF_RAW, STATUS, CATEGORIES, REGIONS>>

\* GET /sales/evaluation, up to the model router (api_service.py 103-117)
sales_evaluation_endpoint(w, model_type, category, region) ==
    /\ req[w].pc = "idle"
    /\ req' = [req EXCEPT ![w] =
                 BeginRequest(Arrived(w, "evaluation", model_type, category, region, 0))]
    /\ UNCHANGED <<agg, feat, DF_RAW, STATUS, CATEGORIES, REGIONS>>

UnknownModel ==
    HTTPException(400, <<"model_type debe ser 'sarima' o 'xgboost'">>)

\* the response of /sales/forecast to what the strategy returned
\* (api_service.py 79-101)
ForecastResponse(q, forecast_df, status) ==
    IF status # "Success" \/ IsNone(forecast_df)
    THEN HTTPException(400, <<"Error en el modelo ", q.model_type, ": ", status>>)
    ELSE Json("forecast",
            [status |-> "success",
             model_used |-> q.model_type,
             history |-> [index |-> [i \in DOMAIN q.ts_history |->
                                        strftime(q.ts_history[i].date)],
                          data |-> [i \in DOMAIN q.ts_history |-> q.ts_history[i].sales]],
             forecast |-> [k \in DOMAIN Val(forecast_df) |->
                             [Date |-> strftime(Val(forecast_df)[k].index),
                              forecast |-> Val(forecast_df)[k].forecast]]])

\* /sales/forecast from the model router on (api_service.py 71-101)
forecast_route(w) ==
    /\ req[w].pc = "route"
    /\ req[w].endpoint = "forecast"
    /\ LET q == req[w] IN
       \/ /\ q.model_type = "sarima"
          /\ \E out \in get_sarima_forecast(q.ts_history, q.steps) :
               req' = [req EXCEPT ![w] = [q EXCEPT !.pc = "done",
                         !.trace = Append(@, "get_sarima_forecast"),
                         !.forecast_df = out[1], !.status = out[2],
                         !.response = ForecastResponse(q, out[1], out[2])]]
       \/ /\ q.model_type = "xgboost"
          /\ \E out \in get_xgboost_forecast(q.ts_history, q.steps) :
               req' = [req EXCEPT ![w] = [q EXCEPT !.pc = "done",
                         !.trace = Append(@, "get_xgboost_forecast"),
                         !.forecast_df = out[1], !.status = out[2],
                         !.response = ForecastResponse(q, out[1], out[2])]]
       \/ /\ q.model_type \notin {"sarima", "xgboost"}
          /\ req' = [req EXCEPT ![w] = [q EXCEPT !.pc = "done",
                                                !.response = UnknownModel]]
    /\ UNCHANGED <<agg, feat, DF_RAW, STATUS, CATEGORIES, REGIONS>>

\* an evaluation response that returns the metrics whatever their status
EvaluationResponseUnchecked(q, metrics) ==
    Json("metrics", [status |-> metrics.status, metrics |-> metrics.metrics,
                     model_used |-> q.model_type])

\* the response of /sales/evaluation to the metrics of the backtest
\* (api_service.py 128-132)
EvaluationResponse(q, metrics) ==
    IF metrics.status # "Success"
    THEN HTTPException(400, <<metrics.message>>)
    ELSE Json("metrics", [status |-> metrics.status, metrics |-> metrics.metrics,
                          model_used |-> q.model_type])

\* /sales/evaluation from the model router on (api_service.py 119-132)
evaluation_route(w) ==
    /\ req[w].pc = "route"
    /\ req[w].endpoint = "evaluation"
    /\ LET q == req[w] IN
       \/ /\ q.model_type = "sarima"
          /\ \E metrics \in run_backtest_sarima(q.ts_history, TestMonths) :
               req' = [req EXCEPT ![w] = [q EXCEPT !.pc = "done",
                         !.trace = Append(@, "run_backtest_sarima"),
                         !.metrics = metrics,
                         !.response = EvaluationResponse(q, metrics)]]
       \/ /\ q.model_type = "xgboost"
          /\ \E metrics \in run_backtest_xgboost(q.ts_history, TestMonths) :
               req' = [req EXCEPT ![w] = [q EXCEPT !.pc = "done",
                         !.trace = Append(@, "run_backtest_xgboost"),
                         !.metrics = metrics,
                         !.response = EvaluationResponse(q, metrics)]]
       \/ /\ q.model_type \notin {"sarima", "xgboost"}
          /\ req' = [req EXCEPT ![w] = [q EXCEPT !.pc = "done",
                                                !.response = UnknownModel]]
    /\ UNCHANGED <<agg, feat, DF_RAW, STATUS, CATEGORIES, REGIONS>>

\* the response leaves the process and the worker takes the next request
Respond(w) ==
    /\ req[w].pc = "done"
    /\ req' = [req EXCEPT ![w] = IdleReq]
    /\ UNCHANGED <<agg, feat, DF_RAW, STATUS, CATEGORIES, REGIONS>>

Next ==
    \/ \E w \in Workers : get_filters(w)
    \/ \E w \in Workers, m \in ModelTypes, c \in CategoryParams,
          rg \in RegionParams, n \in StepsValues :
          sales_forecast_endpoint(w, m, c, rg, n)
    \/ \E w \in Workers, m \in ModelTypes, c \in CategoryParams, rg \in RegionParams :
          sales_evaluation_endpoint(w, m, c, rg)
    \/ \E w \in Workers : forecast_route(w)
    \/ \E w \in Workers : evaluation_route(w)
    \/ \E w \in Workers : Respond(w)

Spec == Init /\ [][Next]_vars

(***************************************************************************)
(* Properties of aggregate_sales.                                          *)
(***************************************************************************)
Matching(rows, category, region) ==
    SelectSeq(rows, LAMBDA r :
        /\ (category = AllCategories \/ r.Category = category)
        /\ (region = AllRegions \/ r.Region = region))

AggMatching == IF IsNone(agg.df) THEN <<>>
               ELSE Matching(Val(agg.df), agg.category, agg.region)

\* C1: for a table with at least one row matching the selection, aggregate_sales
\* returns hasData = TRUE and a series of month-end dates, strictly increasing,
\* one entry per calendar month from the month of the earliest matching
\* Order_Date to the month of the latest, each holding the sum of that month's
\* matching Sales (0 for a month without a matching row); the first month
\* holds at least one matching row.
C1_SeriesContiguous ==
    (agg.pc = "returned" /\ AggMatching # <<>>) =>
        LET m == AggMatching
            ts == agg.ts
            months == {MonthOrd(m[i].Order_Date) : i \in DOMAIN m}
        IN  /\ agg.has = TRUE
            /\ Len(ts) = MaxOf(months) - MinOf(months) + 1
            /\ \A i \in DOMAIN ts :
                 /\ ts[i].date.d = DaysInMonth(ts[i].date.y, ts[i].date.m)
                 /\ ts[i].date.m \in 1..12
                 /\ MonthOrd(ts[i].date) = MinOf(months) + i - 1
                 /\ ts[i].sales = SumSales(RowsInMonth(m, MonthOrd(ts[i].date)))
                 /\ (RowsInMonth(m, MonthOrd(ts[i].date)) = <<>> => ts[i].sales = 0)
            /\ \A i \in 1..(Len(ts) - 1) : DateKey(ts[i].date) < DateKey(ts[i + 1].date)
            /\ RowsInMonth(m, MonthOrd(ts[1].date)) # <<>>

\* a returned series that spans a month without any matching transaction
C1_Witness ==
    /\ agg.pc = "returned"
    /\ agg.has
    /\ Len(agg.ts) = 3
    /\ agg.ts[2].sales = 0
    /\ agg.ts[1].date = Date(2023, 12, 31)
    /\ agg.ts[3].date = Date(2024, 2, 29)
    /\ agg.category # AllCategories

(***************************************************************************)
(* Properties of create_features_for_ml.                                   *)
(***************************************************************************)
FeatLen == Len(feat.ts_data)

\* C6 as stated: for a series of length >= 13 the first 12 rows carry
\* lag_12 = series.sales[12] (the 13th entry).
C6_BackfillFromThirteenth ==
    (feat.pc = "returned" /\ FeatLen >= LagPeriods + 1) =>
        \A i \in 1..LagPeriods :
            feat.X[i].lag_12 = Some(feat.ts_data[LagPeriods + 1].sales)

\* C6, amended: for a series of length >= 13 the first 12 rows carry
\* lag_12 = series.sales[0], the first entry of the series (which is the
\* first defined lag, lag_12[12]).
C6_BackfillFromFirst ==
    (feat.pc = "returned" /\ FeatLen >= LagPeriods + 1) =>
        \A i \in 1..LagPeriods :
            /\ feat.X[i].lag_12 = Some(feat.ts_data[1].sales)
            /\ feat.X[i].lag_12 = feat.X[LagPeriods + 1].lag_12

C6_Witness ==
    /\ feat.pc = "returned"
    /\ FeatLen >= LagPeriods + 1
    /\ feat.ts_data[1].sales # feat.ts_data[LagPeriods + 1].sales
    /\ feat.X[1].lag_12 = Some(feat.ts_data[1].sales)

\* C7 as stated: for a non-empty series of any length, each of the first 12
\* rows (all rows of a shorter series) has a defined lag_12.
C7_LagNeverMissing ==
    (feat.pc = "returned" /\ FeatLen >= 1) =>
        \A i \in DOMAIN feat.X : ~IsNaN(feat.X[i].lag_12)

\* C7, amended: for a series of length >= 13 no row has a missing lag_12 (the
\* first 12 rows are filled with the earliest actual value); for a non-empty
\* series of at most 12 entries lag_12 is missing in every row.
C7_LagMissingOnlyWhenShort ==
    (feat.pc = "returned" /\ FeatLen >= 1) =>
        /\ FeatLen >= LagPeriods + 1 =>
              \A i \in DOMAIN feat.X :
                 /\ ~IsNaN(feat.X[i].lag_12)
                 /\ Val(feat.X[i].lag_12) \in {feat.ts_data[j].sales : j \in DOMAIN feat.ts_data}
                 /\ i <= LagPeriods => Val(feat.X[i].lag_12) = feat.ts_data[1].sales
        /\ FeatLen <= LagPeriods => \A i \in DOMAIN feat.X : IsNaN(feat.X[i].lag_12)

C7_Witness ==
    /\ feat.pc = "returned"
    /\ FeatLen = LagPeriods
    /\ \A i \in DOMAIN feat.X : IsNaN(feat.X[i].lag_12)

\* C8: one feature row per series entry, aligned by position; month in 1..12,
\* year and quarter in 1..4 come from the entry's date alone; lag_12[i] =
\* sales[i-12] for i >= 12; target[i] = sales[i] for every i.
C8_FeatureRows ==
    feat.pc = "returned" =>
        /\ Len(feat.X) = FeatLen
        /\ Len(feat.y) = FeatLen
        /\ \A i \in 1..FeatLen :
             LET dt == feat.ts_data[i].date IN
             /\ feat.X[i].index = dt
             /\ feat.y[i].index = dt
             /\ feat.X[i].month = Some(dt.m)
             /\ dt.m \in 1..12
             /\ feat.X[i].year = Some(dt.y)
             /\ feat.X[i].quarter = Some(CASE dt.m \in 1..3 -> 1 [] dt.m \in 4..6 -> 2
                                           [] dt.m \in 7..9 -> 3 [] dt.m \in 10..12 -> 4)
             /\ feat.y[i].Sales = Some(feat.ts_data[i].sales)
             /\ i > LagPeriods => feat.X[i].lag_12 = Some(feat.ts_data[i - LagPeriods].sales)

C8_Witness ==
    /\ feat.pc = "returned"
    /\ FeatLen = LagPeriods + 2
    /\ feat.X[FeatLen].lag_12 = Some(feat.ts_data[2].sales)
    /\ feat.ts_data[2].sales # feat.ts_data[1].sales
    /\ feat.ts_data[2].sales # feat.ts_data[FeatLen].sales

(***************************************************************************)
(* Properties of the endpoints.                                            *)
(***************************************************************************)
Loaded == ~IsNone(DF_RAW)
DataRequest(q) == q.endpoint \in {"forecast", "evaluation"}
KnownModels == {"sarima", "xgboost"}
StrategyCalls == {"get_sarima_forecast", "get_xgboost_forecast",
                  "run_backtest_sarima", "run_backtest_xgboost"}
NoStrategyCall(q) == \A i \in DOMAIN q.trace : q.trace[i] \notin StrategyCalls
SelectionEmpty(q) == Matching(Val(DF_RAW), q.category, q.region) = <<>>

\* C2: a selection matching no row makes aggregate_sales return an empty series
\* with hasData = FALSE (a missing table included), and the forecast and the
\* evaluation endpoint then return the 'no data' result (status "error" and a
\* message, no exception) without calling a strategy.
C2_NoDataResult ==
    /\ \A c \in CategoryArgs, rg \in RegionArgs :
          aggregate_sales(None, c, rg) = <<(<<>>), FALSE>>
    /\ \A w \in DOMAIN req :
          LET q == req[w] IN
          (q.pc # "idle" /\ DataRequest(q) /\ Loaded /\ SelectionEmpty(q)) =>
             /\ q.pc = "done"
             /\ q.ts_history = <<>>
             /\ q.data_available = FALSE
             /\ q.trace = <<"aggregate_sales">>
             /\ q.response.code = 200
             /\ q.response.kind = "nodata"
             /\ Val(q.response.body).status = "error"
             /\ Val(q.response.body).message =
                    <<"No data found for ", q.category, "/", q.region, ".">>

C2_Witness ==
    \E w \in DOMAIN req :
        /\ req[w].pc = "done"
        /\ req[w].endpoint = "evaluation"
        /\ req[w].model_type = "xgboost"
        /\ Loaded
        /\ Val(DF_RAW) # <<>>
        /\ SelectionEmpty(req[w])
        /\ req[w].response.kind = "nodata"

\* C3 as stated: an unknown model_type with a valid filter (a category and a
\* region the service offers for a non-empty table) always ends in the
\* unknown-strategy 400 and calls no strategy.
C3_UnknownStrategyAlways ==
    \A w \in DOMAIN req :
        LET q == req[w] IN
        (/\ q.pc = "done" /\ DataRequest(q) /\ Loaded
         /\ Val(DF_RAW) # <<>>
         /\ q.model_type \notin KnownModels
         /\ q.category \in Range(CATEGORIES)
         /\ q.region \in Range(REGIONS)) =>
            /\ q.response = UnknownModel
            /\ NoStrategyCall(q)

\* C4 as stated: an unknown model_type is rejected before aggregate_sales is
\* called, so the outcome never depends on the filter.
C4_RejectedBeforeDataWork ==
    \A w \in DOMAIN req :
        LET q == req[w] IN
        (q.pc # "idle" /\ DataRequest(q) /\ Loaded /\ q.model_type \notin KnownModels) =>
            /\ q.pc = "done"
            /\ q.response = UnknownModel
            /\ "aggregate_sales" \notin Range(q.trace)

\* C5: after a failed load every request to the filters, forecast and
\* evaluation endpoints fails at once with an error carrying the stored reason,
\* and neither the aggregation nor a strategy is called.
C5_LoadFailureTerminal ==
    IsNone(DF_RAW) =>
        /\ STATUS # <<"Success">>
        /\ \A w \in DOMAIN req :
             LET q == req[w] IN
             q.pc # "idle" =>
                /\ q.pc = "done"
                /\ q.response.kind = "HTTPException"
                /\ q.response.code = 500
                /\ Len(q.response.detail) = 1 + Len(STATUS)
                /\ SubSeq(q.response.detail, 2, Len(q.response.detail)) = STATUS
                /\ q.trace = <<>>
                /\ q.ts_history = <<>>

C5_Witness ==
    /\ IsNone(DF_RAW)
    /\ \E w1, w2 \in DOMAIN req :
         /\ req[w1].pc = "done" /\ req[w1].endpoint = "filters"
         /\ req[w2].pc = "done" /\ req[w2].endpoint = "evaluation"
         /\ req[w2].response.code = 500

StrategyReturned(q) == q.pc = "done" /\ ~NoStrategyCall(q)
IsClientError(r) == r.kind = "HTTPException" /\ r.code \in 400..499

C10_DatasetNeverWritten ==
    /\ [](\A w \in DOMAIN req :
            "aggregate_sales" \in Range(req[w].trace) =>
                <<req[w].ts_history, req[w].data_available>> =
                    aggregate_sales(DF_RAW, req[w].category, req[w].region))
    /\ [][DF_RAW' = DF_RAW]_vars

C10_Witness ==
    \E w1, w2 \in DOMAIN req :
        /\ req[w1].pc = "route" /\ req[w2].pc = "route"
        /\ req[w1].category = "Furniture" /\ req[w1].region = AllRegions
        /\ req[w2].category = AllCategories /\ req[w2].region = "West"
        /\ req[w1].ts_history # req[w2].ts_history
        /\ req[w1].endpoint # req[w2].endpoint

====
